---------------------------- MODULE Spec2Model ----------------------------
(***************************************************************************)
(* Model of flumotion.manager.depgraph.DepGraph: the dependency graph of   *)
(* workers, jobs and component lifecycle nodes, its boolean state per      *)
(* node, and whatShouldBeStarted.                                          *)
(*                                                                         *)
(* The DAG the DepGraph contains (flumotion.common.dag) is modelled by     *)
(* the operators of the section "dag.DAG": a sequence of nodes in          *)
(* insertion order and a set of edges.                                     *)
(***************************************************************************)
EXTENDS Integers, Sequences, FiniteSets, TLC

VARIABLES
    planet,   \* the component objects handed to the DepGraph, with their attributes
    nodes,    \* self._dag: the nodes (object, type), in insertion order
    edges,    \* self._dag: the edges, pairs <<parent node, child node>>
    state,    \* self._state: dict (object, type) -> bool
    result    \* the list the most recent call returned, when it returned one

vars == <<planet, nodes, edges, state, result>>

-----------------------------------------------------------------------------
(* Bounds of the model *)

\* most keys of self._state that have no node in the graph
MaxStale == 1

-----------------------------------------------------------------------------
(* DepGraph node types *)

WORKER == 0
JOB == 1
COMPONENTSETUP == 2
CLOCKMASTER == 3
COMPONENTSTART == 4
types == 0 .. 4

-----------------------------------------------------------------------------
(* Strings are sequences of characters, so that string.split can be        *)
(* computed.                                                               *)

\* string.split(s, ':')[0], the part of s before the first ':'
RECURSIVE splitHead(_)
splitHead(s) ==
    IF s = <<>> \/ Head(s) = ":" THEN <<>>
    ELSE <<Head(s)>> \o splitHead(Tail(s))

\* the part of s after the first ':' (the empty string when there is none)
RECURSIVE splitRest(_)
splitRest(s) ==
    IF s = <<>> THEN <<>>
    ELSE IF Head(s) = ":" THEN Tail(s)
    ELSE splitRest(Tail(s))

RECURSIVE hasColon(_)
hasColon(s) == s # <<>> /\ (Head(s) = ":" \/ hasColon(Tail(s)))

\* string.split(s, ':'): the list of the parts of s between colons
RECURSIVE split(_)
split(s) ==
    IF hasColon(s) THEN <<splitHead(s)>> \o split(splitRest(s))
    ELSE <<s>>

-----------------------------------------------------------------------------------------------------------------------------------------------------
(* Component objects.  A component is an opaque handle; get(attribute)     *)
(* reads the planet.  config is a dict that may hold 'source', which is a  *)
(* str or a list of str.  A planet is what the manager hands to the        *)
(* DepGraph: the components, the names of the workers that log in, and     *)
(* the components it appoints clock master.                                *)

NoSource == [has |-> FALSE, isStr |-> FALSE, str |-> <<>>, list |-> <<>>]
SourceStr(s) == [has |-> TRUE, isStr |-> TRUE, str |-> s, list |-> <<>>]
SourceList(l) == [has |-> TRUE, isStr |-> FALSE, str |-> <<>>, list |-> l]

Component(n, p, w, c) == [name |-> n, parent |-> p, workerRequested |-> w, config |-> c]

\* one component on a worker, clock master of its flow, whose source names
\* the component itself; a second worker
PlanetSingle ==
    [components |->
        [c \in {"c1"} |-> Component(<<"a">>, "f1", "w1", SourceList(<<<<"a">>>>))],
     workers |-> {"w1", "w2"},
     masters |-> {"c1"}]

\* a feeder and its eater in one flow on one worker
PlanetFlow ==
    [components |->
        [c \in {"c1", "c2"} |->
            IF c = "c1" THEN Component(<<"s","r","c">>, "f1", "w1", NoSource)
            ELSE Component(<<"s","n","k">>, "f1", "w1", SourceList(<<<<"s","r","c">>>>))],
     workers |-> {"w1"},
     masters |-> {}]

\* two components of one flow, the first its clock master
PlanetClock ==
    [components |->
        [c \in {"c1", "c2"} |->
            IF c = "c1" THEN Component(<<"x">>, "f1", "w1", NoSource)
            ELSE Component(<<"y">>, "f1", "", NoSource)],
     workers |-> {"w1"},
     masters |-> {"c1"}]

\* two components without a worker that each eat from the other
PlanetLoop ==
    [components |->
        [c \in {"c1", "c2"} |->
            IF c = "c1" THEN Component(<<"a">>, "f1", "", SourceStr(<<"b",":","x">>))
            ELSE Component(<<"b">>, "f1", "", SourceList(<<<<"a">>>>))],
     workers |-> {},
     masters |-> {}]

\* two eaters without a worker: snk eats from src, and src from a component
\* "ghost" that is not in the planet
PlanetGhost ==
    [components |->
        [c \in {"c1", "c2"} |->
            IF c = "c1"
            THEN Component(<<"s","r","c">>, "f1", "", SourceList(<<<<"g","h","o","s","t">>>>))
            ELSE Component(<<"s","n","k">>, "f1", "", SourceList(<<<<"s","r","c">>>>))],
     workers |-> {},
     masters |-> {}]

\* a feeder f with two feeds a and b, and a component that eats from both
PlanetDup ==
    [components |->
        [c \in {"c1", "c2"} |->
            IF c = "c1" THEN Component(<<"f">>, "f1", "", NoSource)
            ELSE Component(<<"e">>, "f1", "",
                           SourceList(<<<<"f",":","a">>, <<"f",":","b">>>>))],
     workers |-> {},
     masters |-> {}]

\* a component of flow f1, and a component of flow f2 whose source names it
PlanetTwoFlows ==
    [components |->
        [c \in {"c1", "c2"} |->
            IF c = "c1" THEN Component(<<"a">>, "f1", "", NoSource)
            ELSE Component(<<"e">>, "f2", "", SourceStr(<<"a">>))],
     workers |-> {},
     masters |-> {}]

Planets ==
    {PlanetSingle, PlanetFlow, PlanetClock, PlanetLoop,
     PlanetGhost, PlanetDup, PlanetTwoFlows}

Components == DOMAIN planet.components

Workers == planet.workers

Masters == planet.masters

get(component, attribute) == planet.components[component][attribute]

-----------------------------------------------------------------------------
(* dag.DAG: nodes in insertion order, labelled edges, no directed cycle.   *)
(* A graph value g is a record [nodes, edges, state, err]: the DAG, the    *)
(* state dict and the exception that is propagating ("none" when there is  *)
(* none).  Every step leaves g alone while an exception propagates.        *)

NoErr == "none"

\* the exceptions a handler "except KeyError" catches
isKeyError(e) == e \in {"KeyError", "AlreadyExists", "NotFound"}

nodeSet(ns) == {ns[i] : i \in 1 .. Len(ns)}

hasNode(g, object, type) == <<object, type>> \in nodeSet(g.nodes)

raise(g, e) == IF g.err # NoErr THEN g ELSE [g EXCEPT !.err = e]

addNode(g, object, type) ==
    IF g.err # NoErr THEN g
    ELSE IF hasNode(g, object, type) THEN raise(g, "AlreadyExists")
    ELSE [g EXCEPT !.nodes = Append(@, <<object, type>>)]

removeNode(g, object, type) ==
    IF g.err # NoErr THEN g
    ELSE IF ~hasNode(g, object, type) THEN raise(g, "NotFound")
    ELSE [g EXCEPT
            !.nodes = SelectSeq(@, LAMBDA n : n # <<object, type>>),
            !.edges = {e \in @ : e[1] # <<object, type>> /\ e[2] # <<object, type>>}]

children(es, S) == {e[2] : e \in {d \in es : d[1] \in S}}

RECURSIVE closure(_, _)
closure(es, S) ==
    LET more == S \cup children(es, S)
    IN  IF more = S THEN S ELSE closure(es, more)

\* the transitive descendants of (object, type), without the node itself
getOffspringTyped(g, object, type) ==
    closure(g.edges, children(g.edges, {<<object, type>>})) \ {<<object, type>>}

\* depth first from the child: the edge closes a cycle when the parent is reached
wouldCycle(g, p, c) == p = c \/ p \in closure(g.edges, children(g.edges, {c}))

addEdge(g, parent, child, parentType, childType) ==
    LET p == <<parent, parentType>>
        c == <<child, childType>>
    IN  IF g.err # NoErr THEN g
        ELSE IF ~hasNode(g, parent, parentType) \/ ~hasNode(g, child, childType)
            THEN raise(g, "NotFound")
        ELSE IF <<p, c>> \in g.edges THEN raise(g, "AlreadyExists")
        ELSE IF wouldCycle(g, p, c) THEN raise(g, "WouldCycle")
        ELSE [g EXCEPT !.edges = @ \cup {<<p, c>>}]

\* the objects of the nodes of one type, as a set: their order is not fixed
getAllNodesByType(g, type) == {n[1] : n \in {m \in nodeSet(g.nodes) : m[2] = type}}

\* Kahn's algorithm by levels: the nodes without a parent among those left,
\* in insertion order, then the rest
RECURSIVE kahn(_, _, _)
kahn(left, es, out) ==
    LET S == nodeSet(left)
        free(n) == \A e \in es : e[2] = n => e[1] \notin S
        ready == SelectSeq(left, free)
    IN  IF left = <<>> \/ ready = <<>> THEN out
        ELSE CHOOSE r \in {kahn(rest, es, done) :
                               <<rest, done>> \in {<<SelectSeq(left, LAMBDA n : ~free(n)),
                                                     out \o ready>>}} : TRUE

sort(g) == kahn(g.nodes, g.edges, <<>>)

-----------------------------------------------------------------------------
(* DepGraph *)

setKey(f, k, v) == [x \in (DOMAIN f) \cup {k} |-> IF x = k THEN v ELSE f[x]]
delKey(f, k) == [x \in (DOMAIN f) \ {k} |-> f[x]]

_addNode(g, component, type) ==
    LET h == addNode(g, component, type)
    IN  IF h.err # NoErr THEN h
        ELSE [h EXCEPT !.state = setKey(@, <<component, type>>, FALSE)]

_removeNode(g, component, type) == removeNode(g, component, type)

_addEdge(g, parent, child, parentType, childType) ==
    addEdge(g, parent, child, parentType, childType)

addWorker(g, worker) ==
    IF g.err # NoErr THEN g
    ELSE IF ~hasNode(g, worker, WORKER) THEN _addNode(g, worker, WORKER)
    ELSE g

setComponentWorker(g, component, worker) ==
    IF g.err # NoErr THEN g
    ELSE IF hasNode(g, worker, WORKER) /\ hasNode(g, component, JOB)
        THEN _addEdge(g, worker, component, WORKER, JOB)
    ELSE raise(g, "KeyError")

\* clockMasterEdges with a slip: only the clock master's own start node is
\* made to depend on it
RECURSIVE clockMasterEdgesOwnStart(_, _, _, _)
clockMasterEdgesOwnStart(g, component, startnodes, i) ==
    IF g.err # NoErr \/ i > Len(startnodes) THEN g
    ELSE LET start == startnodes[i]
             h == IF start = component
                  THEN _addEdge(g, component, start, CLOCKMASTER, COMPONENTSTART)
                  ELSE g
         IN  clockMasterEdgesOwnStart(h, component, startnodes, i + 1)

\* the loop of addClockMaster over startnodes[i..]
RECURSIVE clockMasterEdges(_, _, _, _)
clockMasterEdges(g, component, startnodes, i) ==
    IF g.err # NoErr \/ i > Len(startnodes) THEN g
    ELSE LET start == startnodes[i]
             h == IF get(start, "parent") = get(component, "parent")
                  THEN _addEdge(g, component, start, CLOCKMASTER, COMPONENTSTART)
                  ELSE g
         IN  clockMasterEdges(h, component, startnodes, i + 1)

\* startnodes: getAllNodesByType(COMPONENTSTART) in the order the DAG gives it
addClockMaster(g, component, startnodes) ==
    IF g.err # NoErr THEN g
    ELSE IF hasNode(g, component, JOB) THEN
        LET g1 == _addNode(g, component, CLOCKMASTER)
            g2 == _addEdge(g1, component, component, COMPONENTSETUP, CLOCKMASTER)
        IN  clockMasterEdges(g2, component, startnodes, 1)
    ELSE raise(g, "KeyError")

addComponent(g, component) ==
    LET g1 == _addNode(g, component, JOB)
        g2 == _addNode(g1, component, COMPONENTSTART)
        g3 == _addNode(g2, component, COMPONENTSETUP)
        g4 == _addEdge(g3, component, component, JOB, COMPONENTSETUP)
        workername == get(component, "workerRequested")
        g5 == IF workername # ""
              THEN setComponentWorker(addWorker(g4, workername), component, workername)
              ELSE g4
    IN  _addEdge(g5, component, component, COMPONENTSETUP, COMPONENTSTART)

\* the loop of removeComponent over the types from type on
RECURSIVE removeTypes(_, _, _)
removeTypes(g, component, type) ==
    IF g.err # NoErr \/ type \notin types THEN g
    ELSE LET h == IF hasNode(g, component, type)
                  THEN LET r == _removeNode(g, component, type)
                       IN  IF r.err # NoErr THEN r
                           ELSE IF <<component, type>> \in DOMAIN r.state
                               THEN [r EXCEPT !.state = delKey(@, <<component, type>>)]
                           ELSE raise(r, "KeyError")
                  ELSE g
         IN  removeTypes(h, component, type + 1)

removeComponent(g, component) == removeTypes(g, component, 0)

\* removeWorker with a slip: the key of the worker stays in self._state
removeWorkerKeepKey(g, worker) ==
    IF g.err # NoErr THEN g
    ELSE IF hasNode(g, worker, WORKER) THEN removeNode(g, worker, WORKER)
    ELSE g

removeWorker(g, worker) ==
    IF g.err # NoErr THEN g
    ELSE IF hasNode(g, worker, WORKER) THEN
        LET r == removeNode(g, worker, WORKER)
        IN  IF r.err # NoErr THEN r
            ELSE IF <<worker, WORKER>> \in DOMAIN r.state
                THEN [r EXCEPT !.state = delKey(@, <<worker, WORKER>>)]
            ELSE raise(r, "KeyError")
    ELSE g

\* exceptKeyError with a slip: a bare except, which swallows every exception
exceptAny(h) == [h EXCEPT !.err = NoErr]

\* exceptKeyError with a slip: no try around the call, the exception propagates
exceptNothing(h) == h

\* try: h   except KeyError: pass
exceptKeyError(h) == IF isKeyError(h.err) THEN [h EXCEPT !.err = NoErr] ELSE h

\* feederLoop with a slip: the edge between the setup nodes is left out
RECURSIVE feederLoopStartOnly(_, _, _, _, _, _)
feederLoopStartOnly(g, eatercomp, name, compsetups, j, feederfound) ==
    IF g.err # NoErr \/ j > Len(compsetups) THEN [g |-> g, feederfound |-> feederfound]
    ELSE LET feedercomp == compsetups[j]
         IN  IF get(feedercomp, "name") = name[1] THEN
                 feederLoopStartOnly(
                     exceptKeyError(_addEdge(g, feedercomp, eatercomp,
                                             COMPONENTSTART, COMPONENTSTART)),
                     eatercomp, name, compsetups, j + 1, TRUE)
             ELSE feederLoopStartOnly(g, eatercomp, name, compsetups, j + 1, feederfound)

\* the loop of mapEatersToFeeders over the feeder candidates compsetups[j..];
\* the value is the graph and feederfound
RECURSIVE feederLoop(_, _, _, _, _, _)
feederLoop(g, eatercomp, name, compsetups, j, feederfound) ==
    IF g.err # NoErr \/ j > Len(compsetups) THEN [g |-> g, feederfound |-> feederfound]
    ELSE LET feedercomp == compsetups[j]
         IN  IF get(feedercomp, "name") = name[1] THEN
                 LET g1 == exceptKeyError(_addEdge(g, feedercomp, eatercomp,
                                                   COMPONENTSETUP, COMPONENTSETUP))
                     g2 == exceptKeyError(_addEdge(g1, feedercomp, eatercomp,
                                                   COMPONENTSTART, COMPONENTSTART))
                 IN  IF g1.err # NoErr
                     THEN [g |-> g1, feederfound |-> feederfound]
                     ELSE feederLoop(g2, eatercomp, name, compsetups, j + 1, TRUE)
             ELSE feederLoop(g, eatercomp, name, compsetups, j + 1, feederfound)

\* the loop over the source entries list[k..] of one eater component
RECURSIVE eaterLoop(_, _, _, _, _)
eaterLoop(g, eatercomp, list, k, compsetups) ==
    IF g.err # NoErr \/ k > Len(list) THEN g
    ELSE LET eater == list[k]
             name == split(eater)
             r == feederLoop(g, eatercomp, name, compsetups, 1, FALSE)
         IN  IF r.g.err # NoErr THEN r.g
             ELSE IF ~r.feederfound THEN raise(r.g, "KeyError")
             ELSE eaterLoop(r.g, eatercomp, list, k + 1, compsetups)

\* the loop over the eater components compsetups[i..]
RECURSIVE eatercompLoop(_, _, _)
eatercompLoop(g, compsetups, i) ==
    IF g.err # NoErr \/ i > Len(compsetups) THEN g
    ELSE LET eatercomp == compsetups[i]
             dict == get(eatercomp, "config")
             list == IF dict.isStr THEN <<dict.str>> ELSE dict.list
             h == IF ~dict.has THEN g
                  ELSE eaterLoop(g, eatercomp, list, 1, compsetups)
         IN  eatercompLoop(h, compsetups, i + 1)

\* compsetups: getAllNodesByType(COMPONENTSETUP) in the order the DAG gives it
mapEatersToFeeders(g, compsetups) == eatercompLoop(g, compsetups, 1)

\* list.remove(x): drops the first x of l
RECURSIVE remove(_, _)
remove(l, x) ==
    IF l = <<>> THEN <<>>
    ELSE IF Head(l) = x THEN Tail(l)
    ELSE <<Head(l)>> \o remove(Tail(l), x)

inList(l, x) == \E i \in 1 .. Len(l) : l[i] = x

\* toBeStartedLoop with a slip: a worker or job that is not live is removed
\* without its offspring
RECURSIVE toBeStartedLoopKeepOffspring(_, _, _, _)
toBeStartedLoopKeepOffspring(g, copy, i, toBeStarted) ==
    IF i > Len(copy) THEN [err |-> NoErr, value |-> toBeStarted]
    ELSE LET obj == copy[i]
         IN  IF ~inList(toBeStarted, obj)
                 THEN toBeStartedLoopKeepOffspring(g, copy, i + 1, toBeStarted)
             ELSE IF obj \notin DOMAIN g.state
                 THEN [err |-> "KeyError", value |-> <<>>]
             ELSE IF g.state[obj] \/ obj[2] = WORKER \/ obj[2] = JOB
                 THEN toBeStartedLoopKeepOffspring(g, copy, i + 1, remove(toBeStarted, obj))
             ELSE toBeStartedLoopKeepOffspring(g, copy, i + 1, toBeStarted)

\* toBeStartedLoop with a slip: only live workers and jobs are removed, other
\* live nodes stay
RECURSIVE toBeStartedLoopKeepLive(_, _, _, _)
toBeStartedLoopKeepLive(g, copy, i, toBeStarted) ==
    IF i > Len(copy) THEN [err |-> NoErr, value |-> toBeStarted]
    ELSE LET obj == copy[i]
             offspring == getOffspringTyped(g, obj[1], obj[2])
             pruned == SelectSeq(toBeStarted, LAMBDA n : n \notin offspring /\ n # obj)
         IN  IF ~inList(toBeStarted, obj)
                 THEN toBeStartedLoopKeepLive(g, copy, i + 1, toBeStarted)
             ELSE IF obj \notin DOMAIN g.state
                 THEN [err |-> "KeyError", value |-> <<>>]
             ELSE IF obj[2] = WORKER \/ obj[2] = JOB
                 THEN toBeStartedLoopKeepLive(g, copy, i + 1,
                          IF g.state[obj] THEN remove(toBeStarted, obj) ELSE pruned)
             ELSE toBeStartedLoopKeepLive(g, copy, i + 1, toBeStarted)

\* the loop of whatShouldBeStarted over copy[i..], the copy of the sorted list;
\* the value is [err, value]: the exception raised and the list toBeStarted
RECURSIVE toBeStartedLoop(_, _, _, _)
toBeStartedLoop(g, copy, i, toBeStarted) ==
    IF i > Len(copy) THEN [err |-> NoErr, value |-> toBeStarted]
    ELSE LET obj == copy[i]
             offspring == getOffspringTyped(g, obj[1], obj[2])
             pruned == SelectSeq(toBeStarted, LAMBDA n : n \notin offspring /\ n # obj)
             \* the rest of the loop with toBeStarted = l (l is evaluated once)
             rest(l) == CHOOSE r \in {toBeStartedLoop(g, copy, i + 1, t) : t \in {l}} : TRUE
         IN  IF ~inList(toBeStarted, obj)
                 THEN rest(toBeStarted)
             ELSE IF obj \notin DOMAIN g.state
                 THEN [err |-> "KeyError", value |-> <<>>]
             ELSE IF g.state[obj]
                 THEN rest(remove(toBeStarted, obj))
             ELSE IF obj[2] = WORKER \/ obj[2] = JOB
                 THEN rest(pruned)
             ELSE rest(toBeStarted)

whatShouldBeStarted(g) ==
    CHOOSE r \in {toBeStartedLoop(g, toBeStarted, 1, toBeStarted) :
                      toBeStarted \in {sort(g)}} : TRUE

\* _setState with a slip: all the offspring is set to False, whatever its object
_setStateAllOffspring(g, object, type, value) ==
    LET g1 == [g EXCEPT !.state = setKey(@, <<object, type>>, value)]
        kids == getOffspringTyped(g1, object, type)
    IN  IF g.err # NoErr THEN g
        ELSE IF ~value THEN
            [g1 EXCEPT !.state =
                [k \in (DOMAIN @) \cup kids |-> IF k \in kids THEN FALSE ELSE @[k]]]
        ELSE g1

_setState(g, object, type, value) ==
    LET g1 == [g EXCEPT !.state = setKey(@, <<object, type>>, value)]
        offspring == getOffspringTyped(g1, object, type)
        kids == {kid \in offspring : kid[1] = object}
    IN  IF g.err # NoErr THEN g
        ELSE IF ~value THEN
            [g1 EXCEPT !.state =
                [k \in (DOMAIN @) \cup kids |-> IF k \in kids THEN FALSE ELSE @[k]]]
        ELSE g1

-----------------------------------------------------------------------------
(* The state machine: one action per public method of DepGraph *)

\* the DepGraph as it stands, no exception propagating
G == [nodes |-> nodes, edges |-> edges, state |-> state, err |-> NoErr]

\* the orders in which a set can be listed
Orders(S) ==
    {o \in [1 .. Cardinality(S) -> S] : \A i, j \in DOMAIN o : o[i] = o[j] => i = j}

staleKeys(g) == (DOMAIN g.state) \ nodeSet(g.nodes)

WithinBounds(g) == Cardinality(staleKeys(g)) <= MaxStale

\* a call that ends with the graph h: h.err is the exception it raised
Call(h) ==
    /\ WithinBounds(h)
    /\ nodes' = h.nodes
    /\ edges' = h.edges
    /\ state' = h.state
    /\ result' = [isList |-> FALSE, value |-> <<>>]
    /\ UNCHANGED planet

Init ==
    /\ planet \in Planets
    /\ nodes = <<>>
    /\ edges = {}
    /\ state = <<>>
    /\ result = [isList |-> FALSE, value |-> <<>>]

AddWorker == \E worker \in Workers : Call(addWorker(G, worker))

AddComponent == \E component \in Components : Call(addComponent(G, component))

RemoveComponent == \E component \in Components : Call(removeComponent(G, component))

RemoveWorker == \E worker \in Workers : Call(removeWorker(G, worker))

SetComponentWorker ==
    \E component \in Components, worker \in Workers :
        Call(setComponentWorker(G, component, worker))

AddClockMaster ==
    \E component \in Masters :
        \E startnodes \in Orders(getAllNodesByType(G, COMPONENTSTART)) :
            Call(addClockMaster(G, component, startnodes))

MapEatersToFeeders ==
    \E compsetups \in Orders(getAllNodesByType(G, COMPONENTSETUP)) :
        Call(mapEatersToFeeders(G, compsetups))

\* WhatShouldBeStarted with a slip: toBeStarted is the node list of the DAG
\* itself and not a copy of it, so what the loop removes is removed from the
\* graph
WhatShouldBeStartedInPlace ==
    LET r == whatShouldBeStarted(G)
    IN  /\ result' = [isList |-> r.err = NoErr, value |-> r.value]
        /\ nodes' = r.value
        /\ UNCHANGED <<planet, edges, state>>

WhatShouldBeStarted ==
    LET r == whatShouldBeStarted(G)
    IN  /\ result' = [isList |-> r.err = NoErr, value |-> r.value]
        /\ UNCHANGED <<planet, nodes, edges, state>>

SetComponentStarted ==
    \E component \in Components : Call(_setState(G, component, COMPONENTSTART, TRUE))

SetComponentNotStarted ==
    \E component \in Components : Call(_setState(G, component, COMPONENTSTART, FALSE))

SetComponentSetup ==
    \E component \in Components : Call(_setState(G, component, COMPONENTSETUP, TRUE))

SetComponentNotSetup ==
    \E component \in Components : Call(_setState(G, component, COMPONENTSETUP, FALSE))

SetJobStarted ==
    \E component \in Components : Call(_setState(G, component, JOB, TRUE))

SetJobStopped ==
    \E component \in Components : Call(_setState(G, component, JOB, FALSE))

SetWorkerStarted ==
    \E worker \in Workers : Call(_setState(G, worker, WORKER, TRUE))

SetWorkerStopped ==
    \E worker \in Workers : Call(_setState(G, worker, WORKER, FALSE))

SetClockMasterStarted ==
    \E component \in Components : Call(_setState(G, component, CLOCKMASTER, TRUE))

SetClockMasterStopped ==
    \E component \in Components : Call(_setState(G, component, CLOCKMASTER, FALSE))

Next ==
    \/ AddWorker
    \/ AddComponent
    \/ RemoveComponent
    \/ RemoveWorker
    \/ SetComponentWorker
    \/ AddClockMaster
    \/ MapEatersToFeeders
    \/ WhatShouldBeStarted
    \/ SetComponentStarted
    \/ SetComponentNotStarted
    \/ SetComponentSetup
    \/ SetComponentNotSetup
    \/ SetJobStarted
    \/ SetJobStopped
    \/ SetWorkerStarted
    \/ SetWorkerStopped
    \/ SetClockMasterStarted
    \/ SetClockMasterStopped

Spec == Init /\ [][Next]_vars

-----------------------------------------------------------------------------
(* Start-up: the manager builds the graph of a planet in which every       *)
(* component has a worker, and then the graph stays as it is.  The workers *)
(* log in and the jobs come up; the manager polls whatShouldBeStarted and  *)
(* brings up the first node of the list it gets.  Nothing is set back to   *)
(* False.                                                                  *)

\* a feeder, clock master of the flow, and its eater, each on its own worker
PlanetStudio ==
    [components |->
        [c \in {"c1", "c2"} |->
            IF c = "c1" THEN Component(<<"s","r","c">>, "f1", "w1", NoSource)
            ELSE Component(<<"s","n","k">>, "f1", "w2", SourceStr(<<"s","r","c",":","v">>))],
     workers |-> {"w1", "w2"},
     masters |-> {"c1"}]

StartupPlanets ==
    {p \in Planets \cup {PlanetStudio} :
        \A c \in DOMAIN p.components : p.components[c].workerRequested # ""}

\* the graphs after addWorker for workers[i..], from the graphs of gs
RECURSIVE addWorkers(_, _, _)
addWorkers(gs, workers, i) ==
    IF i > Len(workers) THEN gs
    ELSE addWorkers({addWorker(g, workers[i]) : g \in gs}, workers, i + 1)

\* the graphs after addComponent for components[i..], from the graphs of gs
RECURSIVE addComponents(_, _, _)
addComponents(gs, components, i) ==
    IF i > Len(components) THEN gs
    ELSE addComponents({addComponent(g, components[i]) : g \in gs}, components, i + 1)

\* the graphs after addClockMaster for masters[i..], from the graphs of gs
RECURSIVE addClockMasters(_, _, _)
addClockMasters(gs, masters, i) ==
    IF i > Len(masters) THEN gs
    ELSE addClockMasters(
             {addClockMaster(g, masters[i], startnodes) :
                 <<g, startnodes>> \in
                     UNION {{h} \X Orders(getAllNodesByType(h, COMPONENTSTART)) : h \in gs}},
             masters, i + 1)

\* the graphs after mapEatersToFeeders, from the graphs of gs; a call that
\* raises is not part of the start-up
mapped(gs) ==
    UNION {{IF m.err = NoErr THEN m ELSE g :
               m \in {mapEatersToFeeders(g, compsetups) :
                          compsetups \in Orders(getAllNodesByType(g, COMPONENTSETUP))}} :
           g \in gs}

\* the graphs the manager can build: the workers log in, the components are
\* added, the clock masters appointed, and mapEatersToFeeders is called
built ==
    UNION {mapped(addClockMasters(
                      addComponents(
                          addWorkers({[nodes |-> <<>>, edges |-> {},
                                       state |-> <<>>, err |-> NoErr]},
                                     workers, 1),
                          components, 1),
                      masters, 1)) :
           <<workers, components, masters>> \in
               Orders(Workers) \X Orders(Components) \X Orders(Masters)}

StartupInit ==
    /\ planet \in StartupPlanets
    /\ \E g \in built :
           /\ g.err = NoErr
           /\ nodes = g.nodes
           /\ edges = g.edges
           /\ state = g.state
    /\ result = [isList |-> FALSE, value |-> <<>>]

\* a worker logs in, or a job comes up: setWorkerStarted, setJobStarted
EnvStart ==
    \E n \in nodeSet(nodes) :
        /\ n[2] \in {WORKER, JOB}
        /\ ~state[n]
        /\ Call(_setState(G, n[1], n[2], TRUE))

\* the manager polls
Poll == ~result.isList /\ WhatShouldBeStarted

\* the manager brings up the first node of the list it got, and sets it
StartFirst ==
    /\ result.isList
    /\ result.value # <<>>
    /\ LET n == Head(result.value)
       IN  Call(_setState(G, n[1], n[2], TRUE))

StartupNext == EnvStart \/ Poll \/ StartFirst

StartupSpec ==
    /\ StartupInit
    /\ [][StartupNext]_vars
    /\ WF_vars(EnvStart)
    /\ WF_vars(Poll)
    /\ WF_vars(StartFirst)

-----------------------------------------------------------------------------
(* Vocabulary of the properties *)

Nodes == nodeSet(nodes)

\* the nodes whose state is True
Live == {n \in Nodes : n \in DOMAIN state /\ state[n]}

Parents(n) == {e[1] : e \in {d \in edges : d[2] = n}}

\* what a call of whatShouldBeStarted returns in the current state
ToBeStarted == whatShouldBeStarted(G).value

\* a occurs in l at an earlier position than b
Earlier(l, a, b) == \E i, j \in 1 .. Len(l) : i < j /\ l[i] = a /\ l[j] = b

\* the most recent call was whatShouldBeStarted, and nothing changed since
JustRead == result.isList /\ result.value = ToBeStarted

\* the position of node n in insertion order
indexOf(n) == CHOOSE i \in 1 .. Len(nodes) : nodes[i] = n

\* there is a path of at most k edges of es from a to b
RECURSIVE Path(_, _, _, _)
Path(es, a, b, k) ==
    /\ k > 0
    /\ \/ <<a, b>> \in es
       \/ \E e \in es : e[1] = a /\ Path(es, e[2], b, k - 1)

Acyclic(es) == \A n \in Nodes : ~Path(es, n, n, Len(nodes))

\* the source entries of the config of component e, as a list
Sources(e) ==
    LET dict == get(e, "config")
    IN  IF ~dict.has THEN <<>> ELSE IF dict.isStr THEN <<dict.str>> ELSE dict.list

\* a source entry of e names component f
Eats(e, f) ==
    \E k \in 1 .. Len(Sources(e)) : split(Sources(e)[k])[1] = get(f, "name")

CompsetupOrders == Orders(getAllNodesByType(G, COMPONENTSETUP))

\* mapEatersToFeeders has been called: another call succeeds and adds nothing
Mapped ==
    \A o \in CompsetupOrders :
        LET h == mapEatersToFeeders(G, o) IN h.err = NoErr /\ h.edges = edges

\* the graph of scenario S1: worker w, component a on w, nothing else
GraphS1(w, a) ==
    /\ Nodes = {<<w, WORKER>>, <<a, JOB>>, <<a, COMPONENTSETUP>>, <<a, COMPONENTSTART>>}
    /\ edges = {<< <<w, WORKER>>, <<a, JOB>> >>,
                << <<a, JOB>>, <<a, COMPONENTSETUP>> >>,
                << <<a, COMPONENTSETUP>>, <<a, COMPONENTSTART>> >>}

-----------------------------------------------------------------------------
(* Properties *)

\* C1: every node whatShouldBeStarted returns has all its parents live: for
\* every returned node n and every edge p -> n, the state of p is True.
C1_PrerequisitesLive ==
    LET l == ToBeStarted
    IN  \A i \in 1 .. Len(l) : \A p \in Parents(l[i]) : p \in Live

\* C2: for every node n whatShouldBeStarted returns and every parent p of n,
\* p is live or p is returned at an earlier position than n.
C2_ParentsLiveOrEarlier ==
    LET l == ToBeStarted
    IN  \A j \in 1 .. Len(l) :
            \A p \in Parents(l[j]) : p \in Live \/ \E i \in 1 .. j - 1 : l[i] = p

\* C2 witness: whatShouldBeStarted has returned a node after a parent of it
\* that is not live.
C2_Witness ==
    /\ JustRead
    /\ \E n \in Nodes : \E p \in Parents(n) :
           p \notin Live /\ Earlier(result.value, p, n)

\* C3: whatShouldBeStarted returns no node whose state is True, and returns
\* each node at most once.
C3_NotLiveOnce ==
    LET l == ToBeStarted
    IN  /\ \A i \in 1 .. Len(l) : l[i] \notin Live
        /\ \A i, j \in 1 .. Len(l) : l[i] = l[j] => i = j

\* C3 witness: whatShouldBeStarted has returned some nodes and left out a
\* live node that is neither a worker nor a job.
C3_Witness ==
    /\ JustRead
    /\ result.value # <<>>
    /\ \E n \in Live : n[2] \notin {WORKER, JOB}

\* C4 as stated: in scenario S1 with nothing live whatShouldBeStarted returns
\* exactly [(w1, WORKER)], and with only the worker live exactly [(a, JOB)].
C4_Original ==
    \A w \in Workers, a \in Components :
        GraphS1(w, a) =>
            /\ Live = {} => ToBeStarted = << <<w, WORKER>> >>
            /\ Live = {<<w, WORKER>>} => ToBeStarted = << <<a, JOB>> >>

\* C4 amended: in scenario S1 with nothing live, and with only the worker
\* live, whatShouldBeStarted returns the empty list: a worker or job that is
\* not live is left out together with its offspring.
C4_WorkerAndJobNotReturned ==
    \A w \in Workers, a \in Components :
        GraphS1(w, a) /\ (Live = {} \/ Live = {<<w, WORKER>>}) => ToBeStarted = <<>>

\* C4 witness: whatShouldBeStarted has been called in scenario S1 with only
\* the worker live.
C4_Witness ==
    /\ JustRead
    /\ \E w \in Workers, a \in Components : GraphS1(w, a) /\ Live = {<<w, WORKER>>}

\* C5: in scenario S1 with the worker and the job live whatShouldBeStarted
\* returns exactly [(a, COMPONENTSETUP)], and with the setup live as well
\* exactly [(a, COMPONENTSTART)].
C5_SetupThenStart ==
    \A w \in Workers, a \in Components :
        GraphS1(w, a) =>
            /\ Live = {<<w, WORKER>>, <<a, JOB>>}
                   => ToBeStarted = << <<a, COMPONENTSETUP>> >>
            /\ Live = {<<w, WORKER>>, <<a, JOB>>, <<a, COMPONENTSETUP>>}
                   => ToBeStarted = << <<a, COMPONENTSTART>> >>


\* scenario S2: src and snk added on worker w, the source of snk is [src],
\* mapEatersToFeeders called, w, both jobs and the setup of src live
ScenarioS2(w, src, snk) ==
    /\ Nodes = {<<w, WORKER>>,
                <<src, JOB>>, <<src, COMPONENTSETUP>>, <<src, COMPONENTSTART>>,
                <<snk, JOB>>, <<snk, COMPONENTSETUP>>, <<snk, COMPONENTSTART>>}
    /\ \A c \in {src, snk} :
           {<< <<w, WORKER>>, <<c, JOB>> >>,
            << <<c, JOB>>, <<c, COMPONENTSETUP>> >>,
            << <<c, COMPONENTSETUP>>, <<c, COMPONENTSTART>> >>} \subseteq edges
    /\ Sources(src) = <<>>
    /\ Sources(snk) = <<get(src, "name")>>
    /\ Mapped
    /\ Live = {<<w, WORKER>>, <<src, JOB>>, <<snk, JOB>>, <<src, COMPONENTSETUP>>}

\* src was added to the graph before snk
AddedBefore(src, snk) == indexOf(<<src, JOB>>) < indexOf(<<snk, JOB>>)

\* C6 as stated: in scenario S2, in whatever order src and snk were added,
\* the list whatShouldBeStarted returns contains (src, COMPONENTSTART) and
\* (snk, COMPONENTSETUP), the first at an earlier position.
C6_Original ==
    \A w \in Workers, src, snk \in Components :
        ScenarioS2(w, src, snk) =>
            Earlier(ToBeStarted, <<src, COMPONENTSTART>>, <<snk, COMPONENTSETUP>>)

\* C6 amended: in scenario S2 with src added before snk, the list
\* whatShouldBeStarted returns contains (src, COMPONENTSTART) and
\* (snk, COMPONENTSETUP), the first at an earlier position; with snk added
\* first, (snk, COMPONENTSETUP) is at the earlier position.
C6_FeederStartBeforeEaterSetup ==
    \A w \in Workers, src, snk \in Components :
        ScenarioS2(w, src, snk) =>
            IF AddedBefore(src, snk)
            THEN Earlier(ToBeStarted, <<src, COMPONENTSTART>>, <<snk, COMPONENTSETUP>>)
            ELSE Earlier(ToBeStarted, <<snk, COMPONENTSETUP>>, <<src, COMPONENTSTART>>)

\* C6 witness: whatShouldBeStarted has been called in scenario S2 with src
\* added before snk.
C6_Witness ==
    /\ JustRead
    /\ \E w \in Workers, src, snk \in Components :
           ScenarioS2(w, src, snk) /\ AddedBefore(src, snk)

\* the start node of y was in the graph when addClockMaster(x) was called,
\* x and y are of one parent flow, and (x, CLOCKMASTER) is not live
Gated(x, y) ==
    /\ <<x, CLOCKMASTER>> \in Nodes \ Live
    /\ <<y, COMPONENTSTART>> \in Nodes
    /\ get(x, "parent") = get(y, "parent")
    /\ indexOf(<<y, COMPONENTSTART>>) < indexOf(<<x, CLOCKMASTER>>)

\* every worker, job and setup node is live, no start node is
ReadyToStart ==
    /\ \A n \in Nodes : n[2] \in {WORKER, JOB, COMPONENTSETUP} => n \in Live
    /\ \A n \in Nodes : n[2] = COMPONENTSTART => n \notin Live

\* C7: once addClockMaster(x) was called with x and y of one parent flow in
\* the graph, while (x, CLOCKMASTER) is not live a list returned by
\* whatShouldBeStarted that contains (y, COMPONENTSTART) (y may be x) contains
\* (x, CLOCKMASTER) at an earlier position; with workers, jobs and setups
\* live the list does contain them, in that order.
C7_ClockMasterBeforeStart ==
    LET l == ToBeStarted
    IN  \A x, y \in Components :
            Gated(x, y) =>
                /\ inList(l, <<y, COMPONENTSTART>>)
                       => Earlier(l, <<x, CLOCKMASTER>>, <<y, COMPONENTSTART>>)
                /\ ReadyToStart => inList(l, <<y, COMPONENTSTART>>)

\* C7 witness: whatShouldBeStarted has been called with a worker, the jobs
\* and the setups live, and the clock master x gating its own start and the
\* start of another component y.
C7_Witness ==
    /\ JustRead
    /\ ReadyToStart
    /\ \E n \in Nodes : n[2] = WORKER
    /\ \E x, y \in Components : x # y /\ Gated(x, x) /\ Gated(x, y)

\* C8: a step that changes only self._state is the effect of one setter: it
\* sets one key n to True and changes nothing else, or it sets n to False
\* together with exactly the descendants of n that have the object of n, and
\* changes nothing else.  So setWorkerStopped changes no component node, and
\* setComponentNotSetup(c) makes (c, COMPONENTSTART) False and changes no node
\* of another object.
C8_DescendantInvalidation ==
    [][(nodes' = nodes /\ edges' = edges /\ state' # state) =>
        /\ DOMAIN state \subseteq DOMAIN state'
        /\ \E n \in DOMAIN state' :
               LET others == (DOMAIN state') \ {n}
               IN  /\ others \subseteq DOMAIN state
                   /\ \A m \in others :
                          (state'[n] \/ m[1] # n[1]) => state'[m] = state[m]
                   /\ ~state'[n] =>
                          \A m \in others :
                              m[1] = n[1] =>
                                  state'[m] = IF Path(edges, n, m, Len(nodes))
                                              THEN FALSE ELSE state[m]
        /\ SetWorkerStopped =>
               \A m \in Nodes : m[2] # WORKER => state'[m] = state[m]
        /\ \A c \in Components :
               (<<c, COMPONENTSETUP>> \in Nodes
                   /\ Call(_setState(G, c, COMPONENTSETUP, FALSE))) =>
                   /\ ~state'[<<c, COMPONENTSETUP>>]
                   /\ ~state'[<<c, COMPONENTSTART>>]
                   /\ \A m \in Nodes : m[1] # c => state'[m] = state[m]]_vars

\* C8 witness: the setup and the start of a feeder are not live while its job
\* and the setup and start of its eater are.
C8_Witness ==
    \E src, snk \in Components :
        /\ << <<src, COMPONENTSETUP>>, <<snk, COMPONENTSETUP>> >> \in edges
        /\ << <<src, COMPONENTSTART>>, <<snk, COMPONENTSTART>> >> \in edges
        /\ {<<src, COMPONENTSETUP>>, <<src, COMPONENTSTART>>} \cap Live = {}
        /\ {<<src, JOB>>, <<snk, COMPONENTSETUP>>, <<snk, COMPONENTSTART>>} \subseteq Live

\* C9: the key set of self._state equals the node set of the graph.
C9_KeysAreNodes == DOMAIN state = Nodes

\* C10: the graph has no directed cycle; and with two components that each
\* name the other in their source (or one that names itself) in the graph,
\* mapEatersToFeeders raises WouldCycle, leaves the graph without a cycle and
\* changes no state.
C10_Acyclic ==
    /\ Acyclic(edges)
    /\ \A a, b \in Components :
           (Eats(a, b) /\ Eats(b, a)
               /\ {<<a, COMPONENTSETUP>>, <<b, COMPONENTSETUP>>} \subseteq Nodes) =>
               \A o \in CompsetupOrders :
                   LET h == mapEatersToFeeders(G, o)
                   IN  /\ h.err = "WouldCycle"
                       /\ Acyclic(h.edges)
                       /\ h.nodes = nodes
                       /\ h.state = state

\* C10 witness: mapEatersToFeeders has added the edges from one of two
\* components that name each other to the other, and raised WouldCycle.
C10_Witness ==
    \E a, b \in Components :
        /\ a # b /\ Eats(a, b) /\ Eats(b, a)
        /\ << <<a, COMPONENTSETUP>>, <<b, COMPONENTSETUP>> >> \in edges
        /\ << <<a, COMPONENTSTART>>, <<b, COMPONENTSTART>> >> \in edges
        /\ \E n \in Live : n[1] = a

\* the call that ended with graph h raised no exception, or left the nodes,
\* the edges and the state as they were
Transactional(h) ==
    h.err # NoErr => h.nodes = nodes /\ h.edges = edges /\ h.state = state

\* C11: every operation that raises an exception leaves the nodes, the edges
\* and the state exactly as they were before the call; so when
\* mapEatersToFeeders raises because a source entry names no component in the
\* graph, the call has added no edge, also with other eaters in the graph.
C11_Transactional ==
    /\ \A worker \in Workers :
           /\ Transactional(addWorker(G, worker))
           /\ Transactional(removeWorker(G, worker))
           /\ \A component \in Components :
                  Transactional(setComponentWorker(G, component, worker))
    /\ \A component \in Components :
           /\ Transactional(addComponent(G, component))
           /\ Transactional(removeComponent(G, component))
           /\ \A startnodes \in Orders(getAllNodesByType(G, COMPONENTSTART)) :
                  Transactional(addClockMaster(G, component, startnodes))
           /\ \A type \in types, value \in BOOLEAN :
                  Transactional(_setState(G, component, type, value))
    /\ \A compsetups \in CompsetupOrders :
           Transactional(mapEatersToFeeders(G, compsetups))

\* the components that have a setup node
Present == getAllNodesByType(G, COMPONENTSETUP)

\* every source entry of a component in the graph names a component in the graph
AllResolved ==
    \A e \in Present : \A k \in 1 .. Len(Sources(e)) :
        \E f \in Present : split(Sources(e)[k])[1] = get(f, "name")

\* the edges from the nodes of a feeder to the nodes of its eater
FeederEdges ==
    UNION {{<< <<f, COMPONENTSETUP>>, <<e, COMPONENTSETUP>> >>,
            << <<f, COMPONENTSTART>>, <<e, COMPONENTSTART>> >>} :
           <<e, f>> \in {p \in Present \X Present : Eats(p[1], p[2])}}

\* several source entries of e name f
EatsTwice(e, f) ==
    \E i, j \in 1 .. Len(Sources(e)) :
        /\ i < j
        /\ split(Sources(e)[i])[1] = get(f, "name")
        /\ split(Sources(e)[j])[1] = get(f, "name")

\* C12: when every source entry names a component in the graph and the
\* feeder edges close no cycle, mapEatersToFeeders succeeds, adds exactly the
\* setup -> setup and start -> start edge of every feeder/eater pair (once,
\* also for a pair named by several entries such as "f:a" and "f:b") and
\* changes neither nodes nor state; and after a call that succeeded, a second
\* call succeeds and leaves nodes, edges and state as the first left them.
C12_MapIdempotent ==
    \A o1 \in CompsetupOrders :
        LET h1 == mapEatersToFeeders(G, o1)
        IN  /\ (AllResolved /\ Acyclic(edges \cup FeederEdges)) =>
                   /\ h1.err = NoErr
                   /\ h1.edges = edges \cup FeederEdges
            /\ h1.err = NoErr =>
                   /\ h1.nodes = nodes /\ h1.state = state
                   /\ \A o2 \in CompsetupOrders :
                          LET h2 == mapEatersToFeeders(h1, o2)
                          IN  /\ h2.err = NoErr
                              /\ h2.nodes = h1.nodes
                              /\ h2.edges = h1.edges
                              /\ h2.state = h1.state

\* C12 witness: mapEatersToFeeders has been called with an eater that names
\* its feeder in two source entries; the two edges are there and another
\* call adds nothing.
C12_Witness ==
    /\ Mapped
    /\ \E e, f \in Present :
           /\ EatsTwice(e, f)
           /\ << <<f, COMPONENTSETUP>>, <<e, COMPONENTSETUP>> >> \in edges
           /\ << <<f, COMPONENTSTART>>, <<e, COMPONENTSTART>> >> \in edges

\* C13: removeComponent(x) succeeds in every state; after it no node (x, type)
\* is in the graph, no key of self._state is keyed on x, no edge has a node of
\* x as an end, and the nodes, the state and the mutual edges of the other
\* components and of the workers are as before; with no node of x in the
\* graph it changes nothing.
C13_RemoveComponent ==
    \A x \in Components :
        LET h == removeComponent(G, x)
        IN  /\ h.err = NoErr
            /\ \A type \in types : ~hasNode(h, x, type)
            /\ \A k \in DOMAIN h.state : k[1] # x
            /\ \A e \in h.edges : e[1][1] # x /\ e[2][1] # x
            /\ h.nodes = SelectSeq(nodes, LAMBDA n : n[1] # x)
            /\ h.edges = {e \in edges : e[1][1] # x /\ e[2][1] # x}
            /\ \A k \in DOMAIN state :
                   k[1] # x => k \in DOMAIN h.state /\ h.state[k] = state[k]
            /\ (\A type \in types : ~hasNode(G, x, type)) =>
                   h.nodes = nodes /\ h.edges = edges /\ h.state = state

\* the jobs that are children of the node of worker w
JobsOf(w) == {e[2] : e \in {d \in edges : d[1] = <<w, WORKER>> /\ d[2][2] = JOB}}

\* C14 as stated: removeWorker(name) fails with NotFound when (name, WORKER)
\* is not in the graph and with InUse when a job is still a child of it, both
\* times changing nothing, and succeeds otherwise; so no job in the graph
\* loses the edge from its worker.
C14_Original ==
    \A worker \in Workers :
        LET h == removeWorker(G, worker)
            unchanged == h.nodes = nodes /\ h.edges = edges /\ h.state = state
        IN  /\ ~hasNode(G, worker, WORKER) => h.err = "NotFound" /\ unchanged
            /\ JobsOf(worker) # {} => h.err = "InUse" /\ unchanged
            /\ (hasNode(G, worker, WORKER) /\ JobsOf(worker) = {}) => h.err = NoErr
            /\ \A e \in edges :
                   (e[2][2] = JOB /\ e[2] \in nodeSet(h.nodes)) => e \in h.edges

\* C14 amended: removeWorker(name) raises nothing.  With (name, WORKER) not
\* in the graph it changes nothing; with it in the graph it removes the node,
\* its key of self._state and its edges, also when jobs are children of it:
\* the jobs stay in the graph, their state as it was, without the edge.
C14_RemoveWorker ==
    \A worker \in Workers :
        LET h == removeWorker(G, worker)
            w == <<worker, WORKER>>
        IN  /\ h.err = NoErr
            /\ ~hasNode(G, worker, WORKER) =>
                   h.nodes = nodes /\ h.edges = edges /\ h.state = state
            /\ hasNode(G, worker, WORKER) =>
                   /\ h.nodes = SelectSeq(nodes, LAMBDA n : n # w)
                   /\ h.edges = {e \in edges : e[1] # w /\ e[2] # w}
                   /\ h.state = delKey(state, w)
                   /\ JobsOf(worker) \subseteq nodeSet(h.nodes)

\* C14 witness: removeWorker has removed the worker of a job that is still in
\* the graph.
C14_Witness ==
    \E c \in Components :
        /\ <<c, JOB>> \in Nodes
        /\ get(c, "workerRequested") \in Workers
        /\ <<get(c, "workerRequested"), WORKER>> \notin Nodes

\* the workers that are parents of the job of component x
WorkersOf(x) == {p \in Parents(<<x, JOB>>) : p[2] = WORKER}

\* setComponentWorker(x, w) raises KeyError and changes nothing when
\* (w, WORKER) or (x, JOB) is not in the graph
C15_NotFound ==
    \A x \in Components, w \in Workers :
        LET h == setComponentWorker(G, x, w)
        IN  (~hasNode(G, w, WORKER) \/ ~hasNode(G, x, JOB)) =>
                /\ h.err = "KeyError"
                /\ h.nodes = nodes /\ h.edges = edges /\ h.state = state

\* C15: setComponentWorker(x, w) raises and changes nothing when (w, WORKER)
\* or (x, JOB) is not in the graph; it assigns x to no second worker while
\* the edge from its worker is there; every job has at most one worker as
\* parent.
C15_OneWorker ==
    /\ C15_NotFound
    /\ \A x \in Components, w \in Workers :
           LET h == setComponentWorker(G, x, w)
           IN  WorkersOf(x) \ {<<w, WORKER>>} # {} =>
                   h.err # NoErr /\ h.edges = edges
    /\ \A x \in Components : Cardinality(WorkersOf(x)) <= 1

\* the nodes below a worker or a job that is not live
BelowNotLive ==
    {n \in Nodes :
        \E p \in Nodes \ Live :
            p[2] \in {WORKER, JOB} /\ Path(edges, p, n, Len(nodes))}

C17_ClockGatesWholeFlow ==
    LET l == ToBeStarted
    IN  \A x, y \in Components :
            (/\ <<x, CLOCKMASTER>> \in Nodes \ Live
             /\ get(x, "parent") = get(y, "parent")
             /\ inList(l, <<y, COMPONENTSTART>>)) =>
                Earlier(l, <<x, CLOCKMASTER>>, <<y, COMPONENTSTART>>)

WorkersAndJobsLive == \A n \in Nodes : n[2] \in {WORKER, JOB} => n \in Live

\* C19: during start-up, eventually every node is live and the poll of
\* whatShouldBeStarted has returned the empty list, from then on; and while
\* every worker and job is live and some other node is not, the list a poll
\* returns is not empty.
C19_StartupProgress ==
    /\ <>[](Nodes \subseteq Live /\ result.isList /\ result.value = <<>>)
    /\ []((result.isList /\ WorkersAndJobsLive /\ ~(Nodes \subseteq Live))
             => result.value # <<>>)

\* C19 witness: the start-up has brought up a component with a clock master
\* or an eater, every node is live, and the manager has polled and got the
\* empty list.
C19_Witness ==
    /\ \E n \in Nodes : n[2] = CLOCKMASTER \/ n \in {e[2] : e \in FeederEdges \cap edges}
    /\ Nodes \subseteq Live
    /\ result.isList
    /\ result.value = <<>>

\* the feeders that mapEatersToFeeders, ending with graph h, has made source
\* entry k of component e depend on
FeedersOf(h, e, k) ==
    {f \in Present :
        /\ split(Sources(e)[k])[1] = get(f, "name")
        /\ << <<f, COMPONENTSETUP>>, <<e, COMPONENTSETUP>> >> \in h.edges}

\* C20: no edge of the graph joins nodes of components of different parent
\* flows; and a call of mapEatersToFeeders that succeeds has resolved every
\* source entry to exactly one feeder.
C20_FlowIsolation ==
    /\ \A e \in edges :
           (e[1][1] \in Components /\ e[2][1] \in Components) =>
               get(e[1][1], "parent") = get(e[2][1], "parent")
    /\ \A compsetups \in CompsetupOrders :
           LET h == mapEatersToFeeders(G, compsetups)
           IN  h.err = NoErr =>
                   \A e \in Present : \A k \in 1 .. Len(Sources(e)) :
                       Cardinality(FeedersOf(h, e, k)) = 1

=============================================================================
